---- MODULE Spec2Model ----
(***************************************************************************)
(* Model of the one-time-passcode login flow of backend/server.js:         *)
(* POST /api/send-otp, the nodemailer sendMail callback,                   *)
(* POST /api/verify-otp and POST /api/logout, over the in-memory otpStore. *)
(*                                                                         *)
(* Node runs each handler and each callback to completion on one thread,   *)
(* so every action below is one whole synchronous handler (or callback).   *)
(* The history variables requests / responses / mails record what the      *)
(* server received and what it sent; the server itself keeps only          *)
(* otpStore and the pending sendMail callbacks.                            *)
(***************************************************************************)
EXTENDS Integers, Sequences, FiniteSets, TLC

VARIABLES
    now,        \* the value Date.now() returns (milliseconds)
    otpStore,   \* const otpStore = {}: property key -> {otp, expires} or absent
    inflight,   \* sendMail calls whose callback has not run yet
    requests,   \* requests handled so far, in handling order (index = request id)
    handledAt,  \* the Date.now() value the latest handler ran at
    responses,  \* responses[i]: what res.send wrote for request i, in order
    mails       \* mails[i]: the sendMail calls of request i and what the notifier reported

vars == <<now, otpStore, inflight, requests, handledAt, responses, mails>>

----------------------------------------------------------------------------
(* Bounds of the model *)

MaxReq == 3          \* requests handled in one behaviour
MaxTicks == 2        \* the clock is observed up to MaxTicks half-lifetimes

(* Program constants *)

OTP_TTL == 60000            \* Date.now() + 60000
OTP_BASE == 100000          \* Math.floor(100000 + ...
OTP_SPAN == 900000          \* ... Math.random() * 900000)
JWT_EXPIRES_SECONDS == 1800 \* expiresIn: '30m'

----------------------------------------------------------------------------
(* JavaScript values that arrive in a JSON body: strings, numbers, or a    *)
(* missing field (undefined).  All three share one record shape.           *)

Str(s) == [t |-> "string", n |-> 0, s |-> s]
Num(n) == [t |-> "number", n |-> n, s |-> ""]
Undefined == [t |-> "undefined", n |-> 0, s |-> ""]

\* a === b without coercion: same type and same value
StrictEquals(a, b) == a.t = b.t /\ a.n = b.n /\ a.s = b.s

DigitChar(d) ==
    CASE d = 0 -> "0" [] d = 1 -> "1" [] d = 2 -> "2" [] d = 3 -> "3"
      [] d = 4 -> "4" [] d = 5 -> "5" [] d = 6 -> "6" [] d = 7 -> "7"
      [] d = 8 -> "8" [] d = 9 -> "9"

RECURSIVE NumberToString(_)
\* Number.prototype.toString() of a non-negative integer: no leading zeros
NumberToString(n) ==
    IF n < 10 THEN DigitChar(n)
    ELSE NumberToString(n \div 10) \o DigitChar(n % 10)

\* obj[v]: a property key is the string form of the value
PropertyKey(v) ==
    CASE v.t = "string" -> v.s
      [] v.t = "number" -> NumberToString(v.n)
      [] OTHER -> "undefined"

----------------------------------------------------------------------------
(* Configuration and inputs *)

ADMIN_EMAIL == Str("a@x.com")   \* process.env.ADMIN_EMAIL

\* values a caller may put in the email field
Emails == {ADMIN_EMAIL, Str("b@y.com")}

Keys == {PropertyKey(e) : e \in Emails}

\* Math.floor(Math.random() * 900000) ranges over 0 .. 899999; the draws tried
RandomDraws == {r \in {0, 23456} : r < OTP_SPAN}

\* every value Math.floor(Math.random() * 900000) can take
AllDraws == 0..(OTP_SPAN - 1)

\* variant: the 100000 offset is left out
GenerateOtp_NoBase(r) == NumberToString(r)

\* otp = Math.floor(100000 + Math.random() * 900000).toString()
GenerateOtp(r) == NumberToString(OTP_BASE + r)

\* values a caller may put in the otp field of /api/verify-otp
SubmittedOtps ==
    {Str(GenerateOtp(r)) : r \in RandomDraws}
        \cup {Num(OTP_BASE + 23456)}

\* the instants at which Date.now() is observed
Instants ==
    {k * (OTP_TTL \div 2) + j : k \in 0..MaxTicks, j \in {0, 1}}

----------------------------------------------------------------------------
(* otpStore *)

Absent == [otp |-> "", expires |-> -1]     \* otpStore[key] === undefined

Challenge(otp, at) == [otp |-> otp, expires |-> at + OTP_TTL]

\* variant: an entry that has not expired yet is kept
StorePut_KeepLive(store, email, otp, at) ==
    IF store[PropertyKey(email)] # Absent /\ store[PropertyKey(email)].expires > at
    THEN store
    ELSE [store EXCEPT ![PropertyKey(email)] = Challenge(otp, at)]

\* variant: an entry already there is kept
StorePut_KeepExisting(store, email, otp, at) ==
    IF store[PropertyKey(email)] # Absent
    THEN store
    ELSE [store EXCEPT ![PropertyKey(email)] = Challenge(otp, at)]

\* otpStore[email] = { otp, expires: Date.now() + 60000 }
StorePut(store, email, otp, at) ==
    [store EXCEPT ![PropertyKey(email)] = Challenge(otp, at)]

\* variant: one shared slot, whatever the email
StoreGet_SharedSlot(store, email) == store[PropertyKey(ADMIN_EMAIL)]

\* otpStore[email]
StoreGet(store, email) == store[PropertyKey(email)]

\* variant: the delete is forgotten
StoreRemove_Keep(store, email) == store

\* delete otpStore[email]
StoreRemove(store, email) ==
    [store EXCEPT ![PropertyKey(email)] = Absent]

\* variant: any well-formed email passes
IsAdmin_AnyString(email) == email.t = "string"

\* email === process.env.ADMIN_EMAIL
IsAdmin(email) == StrictEquals(email, ADMIN_EMAIL)

\* variant: the expiry instant itself still passes (>=)
OtpValid_Inclusive(stored, otp, at) ==
    /\ stored # Absent
    /\ StrictEquals(Str(stored.otp), otp)
    /\ stored.expires >= at

\* variant: the expiry test is left out
OtpValid_NoExpiry(stored, otp, at) ==
    /\ stored # Absent
    /\ StrictEquals(Str(stored.otp), otp)

\* storedOtpData && storedOtpData.otp === otp && storedOtpData.expires > Date.now()
OtpValid(stored, otp, at) ==
    /\ stored # Absent
    /\ StrictEquals(Str(stored.otp), otp)
    /\ stored.expires > at

----------------------------------------------------------------------------
(* Messages *)

\* mailOptions of /api/send-otp; text is `Your OTP is: ${otp}`
MailOptions(email, otp) == [to |-> email, subject |-> "Your OTP", otp |-> otp]

\* one transporter.sendMail call and the (error, info) it reports
MailAttempt(mail, result) == [mail |-> mail, result |-> result]

\* variant: the lifetime is added to the millisecond clock
JwtSign_Millis(email, at) ==
    [email |-> email,
     iat |-> at,
     exp |-> at + JWT_EXPIRES_SECONDS]

\* jwt.sign({ email }, secret, { expiresIn: '30m' }): iat and exp in seconds
JwtSign(email, at) ==
    [email |-> email,
     iat |-> at \div 1000,
     exp |-> (at \div 1000) + JWT_EXPIRES_SECONDS]

Response(status, message, token, error) ==
    [status |-> status, message |-> message, token |-> token, error |-> error]

Unauthorized == Response(401, "Unauthorized", <<>>, FALSE)
OtpSent == Response(200, "OTP sent successfully", <<>>, FALSE)
MailError == Response(500, "Error sending email", <<>>, TRUE)
OtpInvalid == Response(400, "Invalid OTP or OTP expired", <<>>, FALSE)
OtpVerified(token) == Response(200, "OTP verified successfully", <<token>>, FALSE)
LoggedOut == Response(200, "Logged out successfully", <<>>, FALSE)

Request(route, email, otp) == [route |-> route, email |-> email, otp |-> otp]

\* variant: an expired entry gets a message of its own
VerifyResponse_Leaky(stored, email, otp, at) ==
    IF OtpValid(stored, otp, at)
    THEN OtpVerified(JwtSign(email, at))
    ELSE IF stored # Absent /\ stored.expires <= at
         THEN Response(400, "OTP expired", <<>>, FALSE)
         ELSE OtpInvalid

\* what the body of /api/verify-otp answers
VerifyResponse(stored, email, otp, at) ==
    IF OtpValid(stored, otp, at)
    THEN OtpVerified(JwtSign(email, at))
    ELSE OtpInvalid

\* variant: a lookup that finds an expired entry deletes it
VerifyStore_ReclaimExpired(store, email, otp, at) ==
    IF OtpValid(StoreGet(store, email), otp, at)
         \/ (StoreGet(store, email) # Absent /\ StoreGet(store, email).expires <= at)
    THEN StoreRemove(store, email)
    ELSE store

\* variant: every attempt consumes the entry
VerifyStore_DeleteAlways(store, email, otp, at) == StoreRemove(store, email)

\* what /api/verify-otp leaves in otpStore
VerifyStore(store, email, otp, at) ==
    IF OtpValid(StoreGet(store, email), otp, at)
    THEN StoreRemove(store, email)
    ELSE store

\* variant: the error branch answers nothing
CallbackResponses_Silent(error) ==
    IF error THEN <<>> ELSE <<OtpSent>>

\* variant: the error branch does not return
CallbackResponses_NoReturn(error) ==
    IF error THEN <<MailError, OtpSent>> ELSE <<OtpSent>>

\* what the sendMail callback writes to res
CallbackResponses(error) ==
    IF error THEN <<MailError>> ELSE <<OtpSent>>

----------------------------------------------------------------------------
(* State machine *)

Init ==
    /\ now = 0
    /\ otpStore = [k \in Keys |-> Absent]
    /\ inflight = {}
    /\ requests = <<>>
    /\ handledAt = 0
    /\ responses = <<>>
    /\ mails = <<>>

\* app.post('/api/send-otp', ...)
SendOtp(email, r) ==
    /\ Len(requests) < MaxReq
    /\ requests' = Append(requests, Request("send-otp", email, Undefined))
    /\ handledAt' = now
    /\ IF IsAdmin(email)
       THEN LET otp == GenerateOtp(r)
                mail == MailOptions(email, otp)
            IN  /\ otpStore' = StorePut(otpStore, email, otp, now)
                /\ inflight' = inflight \cup {[req |-> Len(requests) + 1, mail |-> mail]}
                /\ mails' = Append(mails, <<MailAttempt(mail, "pending")>>)
                /\ responses' = Append(responses, <<>>)
       ELSE /\ responses' = Append(responses, <<Unauthorized>>)
            /\ mails' = Append(mails, <<>>)
            /\ UNCHANGED <<otpStore, inflight>>
    /\ UNCHANGED now

\* variant: a successful delivery writes the mailed code into the store
SendMailCallback_StoreOnDelivery(p, error) ==
    /\ p \in inflight
    /\ inflight' = inflight \ {p}
    /\ responses' = [responses EXCEPT ![p.req] = @ \o CallbackResponses(error)]
    /\ mails' = [mails EXCEPT ![p.req] =
                    <<MailAttempt(p.mail, IF error THEN "error" ELSE "ok")>>]
    /\ otpStore' = IF error THEN otpStore
                   ELSE StorePut(otpStore, p.mail.to, p.mail.otp, now)
    /\ UNCHANGED <<now, requests, handledAt>>

\* variant: a failed delivery takes the stored entry back
SendMailCallback_Rollback(p, error) ==
    /\ p \in inflight
    /\ inflight' = inflight \ {p}
    /\ responses' = [responses EXCEPT ![p.req] = @ \o CallbackResponses(error)]
    /\ mails' = [mails EXCEPT ![p.req] =
                    <<MailAttempt(p.mail, IF error THEN "error" ELSE "ok")>>]
    /\ otpStore' = IF error THEN StoreRemove(otpStore, p.mail.to) ELSE otpStore
    /\ UNCHANGED <<now, requests, handledAt>>

\* the callback (error, info) => {...} handed to transporter.sendMail
SendMailCallback(p, error) ==
    /\ p \in inflight
    /\ inflight' = inflight \ {p}
    /\ responses' = [responses EXCEPT ![p.req] = @ \o CallbackResponses(error)]
    /\ mails' = [mails EXCEPT ![p.req] =
                    <<MailAttempt(p.mail, IF error THEN "error" ELSE "ok")>>]
    /\ UNCHANGED <<now, otpStore, requests, handledAt>>

\* variant: the handler waits until no delivery is pending
VerifyOtp_WaitsForMail(email, otp) ==
    /\ inflight = {}
    /\ Len(requests) < MaxReq
    /\ requests' = Append(requests, Request("verify-otp", email, otp))
    /\ handledAt' = now
    /\ mails' = Append(mails, <<>>)
    /\ responses' = Append(responses,
                        <<VerifyResponse(StoreGet(otpStore, email), email, otp, now)>>)
    /\ otpStore' = VerifyStore(otpStore, email, otp, now)
    /\ UNCHANGED <<now, inflight>>

\* app.post('/api/verify-otp', ...)
VerifyOtp(email, otp) ==
    /\ Len(requests) < MaxReq
    /\ requests' = Append(requests, Request("verify-otp", email, otp))
    /\ handledAt' = now
    /\ mails' = Append(mails, <<>>)
    /\ responses' = Append(responses,
                        <<VerifyResponse(StoreGet(otpStore, email), email, otp, now)>>)
    /\ otpStore' = VerifyStore(otpStore, email, otp, now)
    /\ UNCHANGED <<now, inflight>>

\* variant: logging out drops the outstanding challenges
Logout_ClearsStore ==
    /\ Len(requests) < MaxReq
    /\ requests' = Append(requests, Request("logout", Undefined, Undefined))
    /\ handledAt' = now
    /\ responses' = Append(responses, <<LoggedOut>>)
    /\ mails' = Append(mails, <<>>)
    /\ otpStore' = [k \in DOMAIN otpStore |-> Absent]
    /\ UNCHANGED <<now, inflight>>

\* app.post('/api/logout', ...)
Logout ==
    /\ Len(requests) < MaxReq
    /\ requests' = Append(requests, Request("logout", Undefined, Undefined))
    /\ handledAt' = now
    /\ responses' = Append(responses, <<LoggedOut>>)
    /\ mails' = Append(mails, <<>>)
    /\ UNCHANGED <<now, otpStore, inflight>>

\* time passes between handlers
Tick ==
    /\ \E t \in Instants : t > now /\ now' = t
    /\ UNCHANGED <<otpStore, inflight, requests, handledAt, responses, mails>>

Next ==
    \/ \E email \in Emails, r \in RandomDraws : SendOtp(email, r)
    \/ \E p \in inflight, error \in BOOLEAN : SendMailCallback(p, error)
    \/ \E email \in Emails, otp \in SubmittedOtps : VerifyOtp(email, otp)
    \/ Logout
    \/ Tick

Spec == Init /\ [][Next]_vars

TypeOK ==
    /\ now \in Instants
    /\ handledAt \in Instants
    /\ handledAt <= now
    /\ Len(responses) = Len(requests)
    /\ Len(mails) = Len(requests)
    /\ \A p \in inflight : p.req \in 1..Len(requests)

----------------------------------------------------------------------------
(* Vocabulary of the properties *)

AdminKey == PropertyKey(ADMIN_EMAIL)

\* this step is a route handler taking a new request
Handled == Len(requests') = Len(requests) + 1

\* the request the step takes, its response and its sendMail calls
NewReq == requests'[Len(requests')]
NewResp == responses'[Len(requests')]
NewMails == mails'[Len(requests')]

\* the entry the new request's email selects, before the handler runs
Stored == otpStore[PropertyKey(NewReq.email)]

IsSendOtp(i) == requests[i].route = "send-otp"
IsVerifyOtp(i) == requests[i].route = "verify-otp"

\* request i was answered with a token
Succeeded(i) == \E k \in 1..Len(responses[i]) : responses[i][k].token # <<>>

\* request i is a send-otp that stored a challenge for email
StoresFor(i, email) ==
    IsSendOtp(i) /\ requests[i].email = email /\ email = ADMIN_EMAIL

----------------------------------------------------------------------------
(* C1: send-otp for any email other than the admin email answers 401,      *)
(* leaves otpStore as it was and hands nothing to the notifier, then and   *)
(* ever after.                                                             *)

C1_Step ==
    (Handled /\ NewReq.route = "send-otp" /\ NewReq.email # ADMIN_EMAIL)
        => /\ NewResp = <<Unauthorized>>
           /\ otpStore' = otpStore
           /\ inflight' = inflight
           /\ NewMails = <<>>

C1_History ==
    \A i \in 1..Len(requests) :
        (IsSendOtp(i) /\ requests[i].email # ADMIN_EMAIL)
            => /\ responses[i] = <<Unauthorized>>
               /\ mails[i] = <<>>
               /\ \A p \in inflight : p.req # i

C1_UnauthorizedNoEffect == [][C1_Step]_vars /\ []C1_History

\* a non-admin send-otp was refused while a challenge was outstanding
C1_Witness ==
    /\ Len(requests) >= 2
    /\ IsSendOtp(Len(requests))
    /\ requests[Len(requests)].email # ADMIN_EMAIL
    /\ responses[Len(requests)] = <<Unauthorized>>
    /\ otpStore[AdminKey] # Absent

----------------------------------------------------------------------------
(* C2: a challenge is single-use.  A verify-otp with the stored code       *)
(* before expiry succeeds and deletes the entry; with no entry it fails;   *)
(* and two successful verifications for an email always have a send-otp    *)
(* for that email between them, so no challenge mints two tokens.          *)

C2_Step ==
    (Handled /\ NewReq.route = "verify-otp")
        => /\ (Stored # Absent /\ NewReq.otp = Str(Stored.otp) /\ now < Stored.expires)
                => /\ Len(NewResp) = 1
                   /\ NewResp[1].status = 200
                   /\ NewResp[1].token # <<>>
                   /\ otpStore'[PropertyKey(NewReq.email)] = Absent
           /\ (Stored = Absent) => NewResp = <<OtpInvalid>>

C2_OneTokenPerChallenge ==
    \A i, j \in 1..Len(requests) :
        (i < j /\ IsVerifyOtp(i) /\ IsVerifyOtp(j)
              /\ requests[i].email = requests[j].email
              /\ Succeeded(i) /\ Succeeded(j))
            => \E k \in (i + 1)..(j - 1) : StoresFor(k, requests[i].email)

C2_SingleUse == [][C2_Step]_vars /\ []C2_OneTokenPerChallenge

\* send-otp, a successful verify-otp, then the same verify-otp again: refused
C2_Witness ==
    /\ Len(requests) = 3
    /\ StoresFor(1, ADMIN_EMAIL)
    /\ IsVerifyOtp(2) /\ Succeeded(2)
    /\ requests[3] = requests[2]
    /\ responses[3] = <<OtpInvalid>>
    /\ now < OTP_TTL

----------------------------------------------------------------------------
(* C3: only the admin email ever gets a token.  Tokens appear only in      *)
(* verify-otp responses, every token carries the admin email, and          *)
(* otpStore never holds an entry under another key.                        *)

C3_OnlyAdminGetsToken ==
    /\ \A i \in 1..Len(requests) :
          \A k \in 1..Len(responses[i]) :
              responses[i][k].token # <<>>
                  => /\ IsVerifyOtp(i)
                     /\ requests[i].email = ADMIN_EMAIL
                     /\ responses[i][k].token[1].email = ADMIN_EMAIL
    /\ \A key \in DOMAIN otpStore : key # AdminKey => otpStore[key] = Absent

\* another email submitted the live code and got no token; the admin then
\* submitted the same code and got one
C3_Witness ==
    \E j, k \in 1..Len(requests) :
        /\ j < k
        /\ IsVerifyOtp(j) /\ requests[j].email # ADMIN_EMAIL
        /\ responses[j] = <<OtpInvalid>>
        /\ IsVerifyOtp(k) /\ Succeeded(k)
        /\ requests[j].otp = requests[k].otp

----------------------------------------------------------------------------
(* C4 as stated: verify-otp succeeds exactly when an entry exists, the     *)
(* submitted otp is the stored string, and now <= expires (the expiry      *)
(* instant itself still counting as unexpired).                            *)

NewSucceeded ==
    /\ Len(NewResp) = 1
    /\ NewResp[1].status = 200
    /\ NewResp[1].token # <<>>

C4_StepInclusive ==
    (Handled /\ NewReq.route = "verify-otp")
        => (NewSucceeded <=>
               /\ Stored # Absent
               /\ NewReq.otp = Str(Stored.otp)
               /\ now <= Stored.expires)

C4_AsStated == [][C4_StepInclusive]_vars

(* C4 amended: verify-otp succeeds exactly when an entry exists, the       *)
(* submitted otp is the stored string (a number with the same digits is    *)
(* not), and now < expires; at now = expires the entry is already expired. *)

C4_StepStrict ==
    (Handled /\ NewReq.route = "verify-otp")
        => (NewSucceeded <=>
               /\ Stored # Absent
               /\ NewReq.otp = Str(Stored.otp)
               /\ now < Stored.expires)

C4_SucceedsIffLiveMatch == [][C4_StepStrict]_vars

\* the stored code was submitted exactly at the expiry instant and refused
C4_Witness ==
    /\ Len(requests) >= 2
    /\ IsVerifyOtp(Len(requests))
    /\ otpStore[AdminKey] # Absent
    /\ requests[Len(requests)] =
           Request("verify-otp", ADMIN_EMAIL, Str(otpStore[AdminKey].otp))
    /\ handledAt = otpStore[AdminKey].expires
    /\ responses[Len(requests)] = <<OtpInvalid>>

----------------------------------------------------------------------------
(* C5: an entry expires 60 seconds after the send-otp that stored it, and  *)
(* a verify-otp with the right code at any later instant answers 400       *)
(* without a token.                                                        *)

C5_Step ==
    /\ (Handled /\ NewReq.route = "send-otp" /\ NewReq.email = ADMIN_EMAIL)
          => otpStore'[AdminKey].expires = now + 60 * 1000
    /\ (Handled /\ NewReq.route = "verify-otp" /\ Stored # Absent
               /\ NewReq.otp = Str(Stored.otp) /\ now > Stored.expires)
          => NewResp = <<OtpInvalid>>

C5_ExpiredCodeFails == [][C5_Step]_vars

\* the right code came after the expiry instant and was refused
C5_Witness ==
    /\ Len(requests) >= 2
    /\ otpStore[AdminKey] # Absent
    /\ requests[Len(requests)] =
           Request("verify-otp", ADMIN_EMAIL, Str(otpStore[AdminKey].otp))
    /\ handledAt > otpStore[AdminKey].expires
    /\ responses[Len(requests)] = <<OtpInvalid>>

----------------------------------------------------------------------------
(* C6: a verify-otp whose otp differs from the stored one fails and leaves *)
(* otpStore as it was, and a verify-otp with the stored code before expiry *)
(* succeeds also when failed attempts went before it.                      *)

C6_Step ==
    /\ (Handled /\ NewReq.route = "verify-otp" /\ Stored # Absent
               /\ NewReq.otp # Str(Stored.otp))
          => /\ NewResp = <<OtpInvalid>>
             /\ otpStore' = otpStore
    /\ (Handled /\ NewReq.route = "verify-otp" /\ Stored # Absent
               /\ NewReq.otp = Str(Stored.otp) /\ now < Stored.expires
               /\ Len(requests) > 0
               /\ IsVerifyOtp(Len(requests))
               /\ responses[Len(requests)] = <<OtpInvalid>>)
          => NewSucceeded

C6_WrongCodeKeepsChallenge == [][C6_Step]_vars

\* send-otp, a wrong code refused, then the right code accepted
C6_Witness ==
    /\ Len(requests) = 3
    /\ StoresFor(1, ADMIN_EMAIL)
    /\ IsVerifyOtp(2) /\ requests[2].email = ADMIN_EMAIL
    /\ responses[2] = <<OtpInvalid>>
    /\ IsVerifyOtp(3) /\ requests[3].email = ADMIN_EMAIL
    /\ requests[3].otp # requests[2].otp
    /\ Succeeded(3)

----------------------------------------------------------------------------
(* C7 as stated: after a second send-otp for the admin email, made before  *)
(* the first challenge was verified, a verify-otp with the first           *)
(* challenge's code fails.                                                 *)

\* the code request i mailed
MailedOtp(i) == mails[i][1].mail.otp

\* i and j are successive admin send-otp requests with no verification
\* between them, and k is a verify-otp of the admin email after j with no
\* further send-otp in between
Superseded(i, j, k) ==
    /\ i < j /\ j < k
    /\ StoresFor(i, ADMIN_EMAIL)
    /\ StoresFor(j, ADMIN_EMAIL)
    /\ \A m \in (i + 1)..(j - 1) : ~Succeeded(m) /\ ~StoresFor(m, ADMIN_EMAIL)
    /\ \A m \in (j + 1)..(k - 1) : ~StoresFor(m, ADMIN_EMAIL)
    /\ IsVerifyOtp(k)
    /\ requests[k].email = ADMIN_EMAIL

C7_AsStated ==
    \A i, j, k \in 1..Len(requests) :
        (Superseded(i, j, k) /\ requests[k].otp = Str(MailedOtp(i)))
            => responses[k] = <<OtpInvalid>>

(* C7 amended: ... fails whenever the second challenge's code differs from *)
(* the first's, even if the first challenge has not expired; when the      *)
(* generator repeats the code, the old code is the new code.               *)

C7_SecondRequestInvalidatesFirst ==
    \A i, j, k \in 1..Len(requests) :
        (Superseded(i, j, k) /\ requests[k].otp = Str(MailedOtp(i))
              /\ MailedOtp(j) # MailedOtp(i))
            => responses[k] = <<OtpInvalid>>

\* two challenges with different codes, then the first code, refused while
\* the first challenge would still be unexpired
C7_Witness ==
    /\ Len(requests) = 3
    /\ Superseded(1, 2, 3)
    /\ MailedOtp(1) # MailedOtp(2)
    /\ requests[3].otp = Str(MailedOtp(1))
    /\ responses[3] = <<OtpInvalid>>
    /\ handledAt < OTP_TTL
    /\ otpStore[AdminKey].otp = MailedOtp(2)

----------------------------------------------------------------------------
(* C8: when the notifier reports an error the request is answered 500, the *)
(* callback leaves otpStore alone, and the entry that request stored still *)
(* verifies before its expiry.                                             *)

\* this step is a sendMail callback
CalledBack == Len(requests') = Len(requests) /\ inflight' # inflight

\* the latest admin send-otp so far was reported undeliverable
LatestDeliveryFailed ==
    \E i \in 1..Len(requests) :
        /\ StoresFor(i, ADMIN_EMAIL)
        /\ \A m \in (i + 1)..Len(requests) : ~StoresFor(m, ADMIN_EMAIL)
        /\ mails[i][1].result = "error"

C8_Step ==
    /\ CalledBack => otpStore' = otpStore
    /\ (Handled /\ NewReq.route = "verify-otp" /\ NewReq.email = ADMIN_EMAIL
               /\ LatestDeliveryFailed
               /\ Stored # Absent
               /\ NewReq.otp = Str(Stored.otp) /\ now < Stored.expires)
          => NewSucceeded

C8_History ==
    \A i \in 1..Len(requests) :
        (mails[i] # <<>> /\ mails[i][1].result = "error")
            => /\ Len(responses[i]) = 1
               /\ responses[i][1].status = 500
               /\ responses[i][1].error

C8_NoRollbackOnNotifierFailure == [][C8_Step]_vars /\ []C8_History

\* the delivery failed, the request got 500, and its code was then accepted
C8_Witness ==
    /\ Len(requests) = 2
    /\ StoresFor(1, ADMIN_EMAIL)
    /\ mails[1][1].result = "error"
    /\ responses[1] = <<MailError>>
    /\ requests[2] = Request("verify-otp", ADMIN_EMAIL, Str(MailedOtp(1)))
    /\ Succeeded(2)

----------------------------------------------------------------------------
(* C9: a verify-otp that fails answers the same 400 message without a      *)
(* token whether the entry is absent, the code differs or the entry has    *)
(* expired; any two failed verifications got identical responses.          *)

C9_Step ==
    (Handled /\ NewReq.route = "verify-otp"
            /\ \/ Stored = Absent
               \/ NewReq.otp # Str(Stored.otp)
               \/ now > Stored.expires)
        => NewResp = <<Response(400, "Invalid OTP or OTP expired", <<>>, FALSE)>>

C9_History ==
    \A i, j \in 1..Len(requests) :
        (IsVerifyOtp(i) /\ IsVerifyOtp(j) /\ ~Succeeded(i) /\ ~Succeeded(j))
            => responses[i] = responses[j]

C9_UniformFailure == [][C9_Step]_vars /\ []C9_History

\* a verify-otp that found no entry, and the right code after expiry:
\* the same answer
C9_Witness ==
    /\ Len(requests) = 3
    /\ IsVerifyOtp(1) /\ requests[1].email = ADMIN_EMAIL
    /\ StoresFor(2, ADMIN_EMAIL)
    /\ requests[3] = Request("verify-otp", ADMIN_EMAIL, Str(MailedOtp(2)))
    /\ handledAt > otpStore[AdminKey].expires
    /\ ~Succeeded(3)
    /\ responses[1] = responses[3]

----------------------------------------------------------------------------
(* C10: a send-otp for the admin email calls sendMail once, to that email  *)
(* and with the code it has just stored, and is answered at most once:     *)
(* nothing while the delivery is pending, 200 once it succeeded, 500 once  *)
(* it failed.                                                              *)

C10_Step ==
    (Handled /\ NewReq.route = "send-otp" /\ NewReq.email = ADMIN_EMAIL)
        => /\ Len(NewMails) = 1
           /\ NewMails[1].mail.to = NewReq.email
           /\ NewMails[1].mail.otp = otpStore'[AdminKey].otp
           /\ Cardinality(inflight') = Cardinality(inflight) + 1

C10_History ==
    \A i \in 1..Len(requests) :
        StoresFor(i, ADMIN_EMAIL)
            => /\ Len(mails[i]) = 1
               /\ mails[i][1].mail.to = requests[i].email
               /\ Cardinality({p \in inflight : p.req = i}) =
                      (IF mails[i][1].result = "pending" THEN 1 ELSE 0)
               /\ responses[i] =
                      (CASE mails[i][1].result = "pending" -> <<>>
                         [] mails[i][1].result = "ok" -> <<OtpSent>>
                         [] mails[i][1].result = "error" -> <<MailError>>)

C10_OneMailOneAnswer == [][C10_Step]_vars /\ []C10_History

\* two admin requests, one delivered and answered 200, one failed and
\* answered 500
C10_Witness ==
    \E i, j \in 1..Len(requests) :
        /\ StoresFor(i, ADMIN_EMAIL) /\ StoresFor(j, ADMIN_EMAIL)
        /\ mails[i][1].result = "ok" /\ responses[i] = <<OtpSent>>
        /\ mails[j][1].result = "error" /\ responses[j] = <<MailError>>
        /\ inflight = {}

----------------------------------------------------------------------------
(* C11 as stated: the token of a successful verify-otp at time t binds the *)
(* email of that call and the absolute expiry t + 30 minutes, and the      *)
(* server keeps no record of it.                                           *)

\* the token the new response carries
NewToken == NewResp[1].token[1]

\* after the step the server state (otpStore, pending callbacks) holds
\* nothing it did not hold before, and the consumed entry is gone
NothingKept ==
    /\ inflight' = inflight
    /\ otpStore' = [otpStore EXCEPT ![PropertyKey(NewReq.email)] = Absent]

C11_StepExact ==
    (Handled /\ NewReq.route = "verify-otp" /\ NewSucceeded)
        => /\ NewToken.email = NewReq.email
           /\ NewToken.exp * 1000 = now + 30 * 60 * 1000
           /\ NothingKept

C11_AsStated == [][C11_StepExact]_vars

(* C11 amended: ... binds the email of that call and an expiry in whole    *)
(* seconds, t rounded down to the second plus 30 minutes (so later than    *)
(* t + 30 min - 1 s and no later than t + 30 min); no record is kept.      *)

C11_StepSeconds ==
    (Handled /\ NewReq.route = "verify-otp" /\ NewSucceeded)
        => /\ NewToken.email = NewReq.email
           /\ NewToken.exp = (now \div 1000) + 30 * 60
           /\ NewToken.exp * 1000 <= now + 30 * 60 * 1000
           /\ NewToken.exp * 1000 > now + 30 * 60 * 1000 - 1000
           /\ NothingKept

C11_TokenBindsEmailAndExpiry == [][C11_StepSeconds]_vars

\* a token issued off the second boundary: its expiry is short of
\* t + 30 min
C11_Witness ==
    /\ Len(requests) >= 2
    /\ IsVerifyOtp(Len(requests))
    /\ Succeeded(Len(requests))
    /\ handledAt % 1000 # 0
    /\ responses[Len(requests)][1].token[1].email = ADMIN_EMAIL
    /\ responses[Len(requests)][1].token[1].exp * 1000 < handledAt + 30 * 60 * 1000
    /\ otpStore[AdminKey] = Absent

----------------------------------------------------------------------------
(* C12: logout answers 200 and changes nothing: otpStore and the pending   *)
(* callbacks are as before, every earlier response (and the token in it)   *)
(* is as it was, and an outstanding challenge still verifies right after.  *)

C12_Step ==
    /\ (Handled /\ NewReq.route = "logout")
          => /\ NewResp = <<Response(200, "Logged out successfully", <<>>, FALSE)>>
             /\ NewMails = <<>>
             /\ otpStore' = otpStore
             /\ inflight' = inflight
             /\ \A i \in 1..Len(requests) : responses'[i] = responses[i]
    /\ (Handled /\ NewReq.route = "verify-otp"
               /\ Len(requests) > 0
               /\ requests[Len(requests)].route = "logout"
               /\ Stored # Absent
               /\ NewReq.otp = Str(Stored.otp) /\ now < Stored.expires)
          => NewSucceeded

C12_LogoutChangesNothing == [][C12_Step]_vars

\* send-otp, logout, then the mailed code is accepted
C12_Witness ==
    /\ Len(requests) = 3
    /\ StoresFor(1, ADMIN_EMAIL)
    /\ requests[2].route = "logout"
    /\ responses[2] = <<LoggedOut>>
    /\ requests[3] = Request("verify-otp", ADMIN_EMAIL, Str(MailedOtp(1)))
    /\ Succeeded(3)

----------------------------------------------------------------------------
(* The code generator on its whole range: one send-otp for the admin       *)
(* email, with every value the random draw can take.                       *)

NextCodes ==
    /\ requests = <<>>
    /\ \E r \in AllDraws : SendOtp(ADMIN_EMAIL, r)

SpecCodes == Init /\ [][NextCodes]_vars

Digits == {"0", "1", "2", "3", "4", "5", "6", "7", "8", "9"}

IsDigitString(s) == \A i \in 1..Len(s) : SubSeq(s, i, i) \in Digits

DigitValue(c) == CHOOSE d \in 0..9 : DigitChar(d) = c

RECURSIVE ParseDecimal(_)
ParseDecimal(s) ==
    IF Len(s) = 0 THEN 0
    ELSE ParseDecimal(SubSeq(s, 1, Len(s) - 1)) * 10
             + DigitValue(SubSeq(s, Len(s), Len(s)))

\* some draw makes send-otp store a code that starts with 0
CanIssueLeadingZero ==
    ENABLED (\E r \in AllDraws :
                SendOtp(ADMIN_EMAIL, r) /\ SubSeq(otpStore'[AdminKey].otp, 1, 1) = "0")

(* C13 as stated: the codes send-otp can store are the 6-digit strings     *)
(* 000000 .. 999999: every stored code has 6 digits, and codes with a      *)
(* leading zero (values below 100000) can be issued.                       *)

C13_AsStated ==
    /\ otpStore[AdminKey] # Absent
          => Len(otpStore[AdminKey].otp) = 6 /\ IsDigitString(otpStore[AdminKey].otp)
    /\ requests = <<>> => CanIssueLeadingZero

(* C13 amended: the codes send-otp can store are the 6-digit strings       *)
(* 100000 .. 999999: whatever the draw, the stored code has 6 digits, does *)
(* not start with 0 and reads as a number from 100000 to 999999.           *)

C13_CodesAreSixDigitsFrom100000 ==
    otpStore[AdminKey] # Absent
        => /\ Len(otpStore[AdminKey].otp) = 6
           /\ IsDigitString(otpStore[AdminKey].otp)
           /\ SubSeq(otpStore[AdminKey].otp, 1, 1) # "0"
           /\ ParseDecimal(otpStore[AdminKey].otp) \in 100000..999999
           /\ mails[1][1].mail.otp = otpStore[AdminKey].otp

\* the largest code has been stored
C13_Witness ==
    /\ Len(requests) = 1
    /\ otpStore[AdminKey].otp = "999999"
    /\ otpStore[AdminKey].expires = 60000

----------------------------------------------------------------------------
(* C14: otpStore has one slot per key, and right after a send-otp for the  *)
(* admin email at time t that slot holds exactly the code just generated   *)
(* with expires = t + 60 s, whether the slot was empty, live or expired    *)
(* before; the other slots are as they were.                               *)

C14_Step ==
    (Handled /\ NewReq.route = "send-otp" /\ NewReq.email = ADMIN_EMAIL)
        => /\ otpStore'[AdminKey] =
                  [otp |-> NewMails[1].mail.otp, expires |-> now + 60 * 1000]
           /\ \A key \in DOMAIN otpStore \ {AdminKey} : otpStore'[key] = otpStore[key]

C14_OneSlotPerKey ==
    /\ DOMAIN otpStore = {"a@x.com", "b@y.com"}
    /\ \A key \in DOMAIN otpStore :
          otpStore[key] # Absent
              => /\ Len(otpStore[key].otp) = 6
                 /\ \E i \in 1..Len(requests) :
                       /\ StoresFor(i, ADMIN_EMAIL)
                       /\ otpStore[key].otp = MailedOtp(i)

C14_PutReplacesEntry == [][C14_Step]_vars /\ []C14_OneSlotPerKey

\* a second send-otp replaced a live entry that held another code
C14_Witness ==
    /\ Len(requests) = 2
    /\ StoresFor(1, ADMIN_EMAIL) /\ StoresFor(2, ADMIN_EMAIL)
    /\ MailedOtp(1) # MailedOtp(2)
    /\ handledAt = 30000
    /\ otpStore[AdminKey] = [otp |-> MailedOtp(2), expires |-> 90000]

----------------------------------------------------------------------------
(* C15 as stated: after a verify-otp for an email whose stored entry has   *)
(* expired, otpStore no longer holds that entry.                           *)

C15_StepReclaims ==
    (Handled /\ NewReq.route = "verify-otp" /\ Stored # Absent
            /\ now > Stored.expires)
        => otpStore'[PropertyKey(NewReq.email)] = Absent

C15_AsStated == [][C15_StepReclaims]_vars

(* C15 amended: expired entries are not reclaimed on lookup: a verify-otp  *)
(* that finds an expired entry answers 400 and leaves otpStore as it was;  *)
(* an expired entry leaves the store only when a later send-otp overwrites *)
(* it.                                                                     *)

C15_StepKeeps ==
    /\ (Handled /\ NewReq.route = "verify-otp" /\ Stored # Absent
               /\ now >= Stored.expires)
          => /\ otpStore' = otpStore
             /\ NewResp = <<OtpInvalid>>
    /\ \A key \in DOMAIN otpStore :
          (otpStore[key] # Absent /\ now >= otpStore[key].expires
                /\ otpStore'[key] # otpStore[key])
              => /\ Handled
                 /\ NewReq.route = "send-otp"
                 /\ PropertyKey(NewReq.email) = key

C15_ExpiredEntryStays == [][C15_StepKeeps]_vars

\* a lookup after expiry has run and the expired entry is still stored
C15_Witness ==
    /\ Len(requests) = 2
    /\ StoresFor(1, ADMIN_EMAIL)
    /\ IsVerifyOtp(2) /\ requests[2].email = ADMIN_EMAIL
    /\ responses[2] = <<OtpInvalid>>
    /\ otpStore[AdminKey] = [otp |-> MailedOtp(1), expires |-> 60000]
    /\ handledAt = 60001

----------------------------------------------------------------------------
(* C16: when send-otp requests for the admin email overlap, otpStore holds *)
(* the code of the request whose handler ran last, whatever the order in   *)
(* which the callbacks run and whatever they report; a callback never      *)
(* changes otpStore.                                                       *)

\* request j is the latest admin send-otp and nothing was verified since
LatestUnconsumed(j) ==
    /\ StoresFor(j, ADMIN_EMAIL)
    /\ \A m \in (j + 1)..Len(requests) :
          ~StoresFor(m, ADMIN_EMAIL) /\ ~Succeeded(m)

C16_LastWriteWins ==
    \A j \in 1..Len(requests) :
        LatestUnconsumed(j)
            => /\ otpStore[AdminKey] # Absent
               /\ otpStore[AdminKey].otp = MailedOtp(j)

C16_CallbackStep ==
    (Len(requests') = Len(requests) /\ responses' # responses)
        => /\ otpStore' = otpStore
           /\ Cardinality(inflight') = Cardinality(inflight) - 1

C16_OverlappingRequests == [][C16_CallbackStep]_vars /\ []C16_LastWriteWins

\* two overlapping requests with different codes; the second one's callback
\* ran first and reported a failure, the first is still pending: the store
\* holds the second code
C16_Witness ==
    /\ Len(requests) = 2
    /\ StoresFor(1, ADMIN_EMAIL) /\ StoresFor(2, ADMIN_EMAIL)
    /\ MailedOtp(1) # MailedOtp(2)
    /\ mails[1][1].result = "pending"
    /\ mails[2][1].result = "error"
    /\ otpStore[AdminKey].otp = MailedOtp(2)

----------------------------------------------------------------------------
(* C17: a pending delivery blocks nothing.  While a sendMail callback is   *)
(* outstanding, verify-otp, logout and a further send-otp can each be      *)
(* handled (as far as the request bound allows), verify-otp and logout are *)
(* answered in their own step, and the code just stored is accepted before *)
(* the send-otp that stored it has been answered.                          *)

C17_NothingBlocked ==
    (inflight # {} /\ Len(requests) < MaxReq)
        => /\ \A email \in Emails, otp \in SubmittedOtps : ENABLED VerifyOtp(email, otp)
           /\ ENABLED Logout
           /\ \A email \in Emails, r \in RandomDraws : ENABLED SendOtp(email, r)

C17_Step ==
    /\ (Handled /\ inflight # {} /\ NewReq.route \in {"verify-otp", "logout"})
          => /\ Len(NewResp) = 1
             /\ inflight' = inflight
    /\ (Handled /\ inflight # {} /\ NewReq.route = "send-otp"
               /\ NewReq.email = ADMIN_EMAIL)
          => /\ inflight \subseteq inflight'
             /\ otpStore'[AdminKey].otp = NewMails[1].mail.otp
    /\ (Handled /\ NewReq.route = "verify-otp" /\ NewReq.email = ADMIN_EMAIL
               /\ now < Stored.expires
               /\ \E j \in 1..Len(requests) :
                     /\ LatestUnconsumed(j)
                     /\ responses[j] = <<>>
                     /\ NewReq.otp = Str(MailedOtp(j)))
          => NewSucceeded

C17_PendingMailBlocksNothing == [][C17_Step]_vars /\ []C17_NothingBlocked

\* the mailed code was accepted while its send-otp was still unanswered
C17_Witness ==
    /\ Len(requests) = 2
    /\ StoresFor(1, ADMIN_EMAIL)
    /\ responses[1] = <<>>
    /\ \E p \in inflight : p.req = 1
    /\ requests[2] = Request("verify-otp", ADMIN_EMAIL, Str(MailedOtp(1)))
    /\ Succeeded(2)

----------------------------------------------------------------------------
(* The notifier reports on every sendMail call sooner or later: weak       *)
(* fairness of the callback of each request.                               *)

CallbackOf(i) ==
    \E p \in inflight, error \in BOOLEAN : p.req = i /\ SendMailCallback(p, error)

\* the same handlers with one draw and one submitted code: which code is
\* drawn or submitted has no bearing on whether a request is answered
NextLive ==
    \/ \E email \in Emails : SendOtp(email, 0)
    \/ \E p \in inflight, error \in BOOLEAN : SendMailCallback(p, error)
    \/ \E email \in Emails : VerifyOtp(email, Str(GenerateOtp(0)))
    \/ Logout
    \/ Tick

FairSpec ==
    Init /\ [][NextLive]_vars /\ \A i \in 1..MaxReq : WF_vars(CallbackOf(i))

(* C18: every request gets a response.  verify-otp, logout and send-otp    *)
(* for a non-admin email are answered within their own handler step;       *)
(* send-otp for the admin email is answered once the notifier has          *)
(* reported, which under the fairness above eventually happens.            *)

C18_SyncStep ==
    (Handled /\ ~(NewReq.route = "send-otp" /\ NewReq.email = ADMIN_EMAIL))
        => Len(NewResp) = 1

Answered(i) == Len(requests) >= i /\ Len(responses[i]) = 1

C18_EveryRequestAnswered ==
    /\ [][C18_SyncStep]_vars
    /\ \A i \in 1..MaxReq : (Len(requests) >= i) ~> Answered(i)

\* a send-otp answered by its callback, a logout and a verify-otp, all
\* answered, nothing pending
C18_Witness ==
    /\ Len(requests) = 3
    /\ StoresFor(1, ADMIN_EMAIL) /\ responses[1] = <<OtpSent>>
    /\ requests[2].route = "logout"
    /\ IsVerifyOtp(3)
    /\ \A i \in 1..3 : Answered(i)
    /\ inflight = {}

====
